---- MODULE Spec2Model ----
(***************************************************************************)
(* Hypothesize-verify engine (mvp/): the retrying model-call wrapper       *)
(* call_llm (utils.py), the verifier agent (agents.py), the pipeline       *)
(* orchestrator run_pipeline (main.py) and the evaluation harness          *)
(* (evaluation.py).                                                        *)
(*                                                                         *)
(* Python values are records tagged with their type, so that None, "" and  *)
(* a non-empty str stay distinct.  A str is a sequence of chunks: a chunk  *)
(* is one whitespace character or one maximal run of other characters.     *)
(***************************************************************************)
EXTENDS Integers, Sequences, FiniteSets, TLC

VARIABLES
    \* ---- utils.py: module state and one call_llm invocation
    client,        \* module-level client: "None" or "OpenAI"
    config,        \* the attributes of config that call_llm reads
    llm_pc,        \* position of call_llm: idle, called, attempt, returned, raised
    attempt,       \* loop variable of `for attempt in range(config.MAX_RETRIES)`
    outcomes,      \* what the endpoint did at each network attempt so far
    sleeps,        \* the delays passed to time.sleep, in ticks
    llm_ret,       \* the value call_llm returned
    llm_calls,     \* number of call_llm invocations of the current caller
    \* ---- agents.py: one verify invocation
    v_pc,          \* position of verify: idle, awaiting, returned, raised
    v_snippets,    \* the evidence argument
    v_ret,         \* the value verify returned
    \* ---- main.py: one run_pipeline invocation
    p_pc,              \* position: Start, Planning, Search, Verify, Synthesizing,
                       \* Done, Aborted, Raised
    hypothesis_graph,  \* the list generate_graph returned
    verified_facts,    \* the list of {"triple", "evidence"} records
    p_i,               \* index in hypothesis_graph of the triple being verified
    queries,           \* the list generate_queries returned for that triple
    p_j,               \* index in queries of the query being evaluated
    snippets,          \* what execute_search returned for that query
    is_verified,       \* the flag of the same name
    final_answer,      \* what generate_answer returned
    p_ret,             \* the value run_pipeline returned
    calls,             \* history: number of calls made to each collaborator
    verdicts,          \* history: per triple index, the verdicts verify returned
    fact_src,          \* history: per record of verified_facts, its triple index
    planned,           \* history: per triple index, the length of each list
                       \* generate_queries returned for it
    searched,          \* history: per triple index, the positions in queries that
                       \* were handed to execute_search
    search_texts,      \* history: per triple index, the texts execute_search
                       \* returned, in call order
    answer_call,       \* history: the generate_answer call, its argument and the
                       \* prompt and response of its model call
    \* ---- evaluation.py: one run_evaluation_framework invocation
    h_pc,              \* main thread: start, submit, collect, done
    test_suite,        \* number of test cases loaded; the cases are 1..test_suite
    max_workers,       \* width of the ThreadPoolExecutor
    submitted,         \* number of cases handed to executor.submit so far
    work_queue,        \* the executor's queue of submitted, not yet started cases
    worker,            \* per worker thread: the case it runs, or 0 when idle
    future,            \* per case: the state of its future and, once finished, its result
    pre_finished,      \* as_completed: futures found finished when it was called
    waiter,            \* as_completed: futures finished since, in completion order
    results,           \* the list of the same name
    log,               \* the log file: the header, per section its opening lines
                       \* and its closing line, the summary
    log_pc,            \* main thread inside log_result: the case whose section is
                       \* being written, 0 otherwise
    completed,         \* history: the cases in the order their futures finished,
                       \* each with whether it finished before as_completed was called
    judge_calls,       \* history: per case, calls of agents.evaluate_answer
    pipeline_runs,     \* history: per case, run_pipeline invocations that returned
    \* ---- agents.py: one generate_graph, generate_queries or evaluate_answer invocation
    ag_pc,             \* idle, returned, raised
    ag_fn,             \* the agent function that was called
    ag_arg,            \* history: what call_llm handed the function
    ag_ret             \* the value it returned

llmVars == <<client, config, llm_pc, attempt, outcomes, sleeps, llm_ret, llm_calls>>
verVars == <<v_pc, v_snippets, v_ret>>
pipeVars == <<p_pc, hypothesis_graph, verified_facts, p_i, queries, p_j, snippets,
              is_verified, final_answer, p_ret, calls, verdicts, fact_src, planned,
              searched, search_texts, answer_call>>
harVars == <<h_pc, test_suite, max_workers, submitted, work_queue, worker, future,
             pre_finished, waiter, results, log, log_pc, completed, judge_calls,
             pipeline_runs>>
agVars == <<ag_pc, ag_fn, ag_arg, ag_ret>>
vars == <<llmVars, verVars, pipeVars, harVars, agVars>>

-----------------------------------------------------------------------------
(* Bounds *)

MaxRetriesBound == 3     \* largest config.MAX_RETRIES explored
MaxBackoffBound == 2     \* largest config.INITIAL_BACKOFF explored (seconds)
TicksPerSecond == 2      \* resolution of the clock: ticks per second
MaxTextLen == 2          \* longest model output explored, in chunks
MaxClaims == 2           \* longest claim graph explored
MaxQueries == 2          \* longest query list explored
MaxPlannerQueries == 4   \* longest query list explored for generate_queries alone
MaxCases == 3            \* largest test suite explored
MaxWorkers == 2          \* largest max_workers explored

(* Program constants *)

JitterRange == 1         \* random.uniform(0, 1): upper end, in seconds
QUERY_LIMIT == 3         \* QUERY_GENERATOR_PROMPT asks for at most 3 queries

-----------------------------------------------------------------------------
(* Python values *)

PyNone == [type |-> "NoneType"]
Str(s) == [type |-> "str", val |-> s]
Truthy(v) == v.type = "str" /\ v.val # <<>>

Whitespace == {" ", "\n"}
Chunks == Whitespace \cup {"Supports", "supports", "Refutes", "Neutral", "x"}

RECURSIVE SeqsUpTo(_, _)
SeqsUpTo(S, n) ==
    IF n = 0 THEN {<<>>}
    ELSE LET shorter == SeqsUpTo(S, n - 1)
         IN  shorter \cup {Append(s, c) : s \in {t \in shorter : Len(t) = n - 1}, c \in S}

RawTexts == SeqsUpTo(Chunks, MaxTextLen)

RECURSIVE lstrip(_)
lstrip(s) == IF s # <<>> /\ Head(s) \in Whitespace THEN lstrip(Tail(s)) ELSE s

RECURSIVE rstrip(_)
rstrip(s) ==
    IF s # <<>> /\ s[Len(s)] \in Whitespace THEN rstrip(SubSeq(s, 1, Len(s) - 1)) ELSE s

\* str.strip(): leading and trailing whitespace removed
strip(s) == rstrip(lstrip(s))

RECURSIVE Pow2(_)
Pow2(n) == IF n = 0 THEN 1 ELSE 2 * Pow2(n - 1)

-----------------------------------------------------------------------------
(* config.py and the module-level client of utils.py *)

\* config.py defines no MAX_RETRIES and no INITIAL_BACKOFF; a deployment that
\* adds the retry section defines both.
Undefined == [defined |-> FALSE]
RetrySection(m, b) == [defined |-> TRUE, MAX_RETRIES |-> m, INITIAL_BACKOFF |-> b]

Configs ==
    {Undefined} \cup
    {RetrySection(m, b) : m \in 0..MaxRetriesBound, b \in 1..MaxBackoffBound}

\* utils.py builds the client inside try/except: construction either yields a
\* client or leaves None.
Clients == {"None", "OpenAI"}

-----------------------------------------------------------------------------
(* utils.call_llm *)

\* What one client.chat.completions.create(...) followed by
\* response.choices[0].message.content.strip() can do.
Ok(raw) == [kind |-> "ok", content |-> raw]
TransportError == [kind |-> "error"]          \* create() raises
Malformed == [kind |-> "malformed"]           \* content is None: .strip() raises
AttemptOutcomes == {Ok(raw) : raw \in RawTexts} \cup {TransportError, Malformed}

Failed(o) == o.kind # "ok"

AllFailed(os) == \A k \in 1..Len(os) : Failed(os[k])

\* `range(config.MAX_RETRIES)`: evaluated outside the try block
range_raises(cfg) == ~cfg.defined

\* variant: the client test is skipped
client_missing_never(c) == FALSE

\* `if not client`: the module-level client is None
client_missing(c) == c = "None"

\* `for attempt in range(config.MAX_RETRIES)`: the loop runs for these values
in_range(a, cfg) == a >= 0 /\ a < cfg.MAX_RETRIES

\* variant: the final attempt is taken to be the one before the last
is_last_attempt_early(a, cfg) == a = cfg.MAX_RETRIES - 2

\* `if attempt == config.MAX_RETRIES - 1`
is_last_attempt(a, cfg) == a = cfg.MAX_RETRIES - 1

\* variant: the same backoff before every retry
backoff_time_constant(a, cfg) == cfg.INITIAL_BACKOFF * TicksPerSecond

\* `backoff_time = config.INITIAL_BACKOFF * (2 ** attempt)`, in ticks
backoff_time(a, cfg) == cfg.INITIAL_BACKOFF * Pow2(a) * TicksPerSecond

\* `jitter = random.uniform(0, 1)`, in ticks
Jitters == 0..(JitterRange * TicksPerSecond)

\* Lines 36-48: the client test, the message list, and the evaluation of
\* range(config.MAX_RETRIES).
LLMEnter ==
    /\ llm_pc = "called"
    /\ IF client_missing(client)
       THEN /\ llm_pc' = "returned"
            /\ llm_ret' = PyNone
       ELSE IF range_raises(config)
       THEN /\ llm_pc' = "raised"
            /\ UNCHANGED llm_ret
       ELSE IF ~in_range(0, config)
       THEN /\ llm_pc' = "returned"
            /\ llm_ret' = PyNone
       ELSE /\ llm_pc' = "attempt"
            /\ UNCHANGED llm_ret
    /\ attempt' = 0
    /\ UNCHANGED <<client, config, outcomes, sleeps, llm_calls>>

\* Lines 48-71: one iteration of the retry loop.
LLMAttempt ==
    /\ llm_pc = "attempt"
    /\ \E o \in AttemptOutcomes :
        /\ outcomes' = Append(outcomes, o)
        /\ IF ~Failed(o)
           THEN /\ llm_pc' = "returned"
                /\ llm_ret' = Str(strip(o.content))
                /\ UNCHANGED <<attempt, sleeps>>
           ELSE IF is_last_attempt(attempt, config)
           THEN /\ llm_pc' = "returned"
                /\ llm_ret' = PyNone
                /\ UNCHANGED <<attempt, sleeps>>
           ELSE \E jitter \in Jitters :
                /\ sleeps' = Append(sleeps, backoff_time(attempt, config) + jitter)
                /\ attempt' = attempt + 1
                /\ IF in_range(attempt + 1, config)
                   THEN UNCHANGED <<llm_pc, llm_ret>>
                   ELSE /\ llm_pc' = "returned"      \* loop exhausted: line 71
                        /\ llm_ret' = PyNone
    /\ UNCHANGED <<client, config, llm_calls>>

\* A caller invokes call_llm.
CallLLM ==
    /\ llm_pc \in {"idle", "returned", "raised"}
    /\ llm_pc' = "called"
    /\ attempt' = 0
    /\ outcomes' = <<>>
    /\ sleeps' = <<>>
    /\ llm_ret' = PyNone
    /\ llm_calls' = 1
    /\ UNCHANGED <<client, config>>

InitLLM ==
    /\ client \in Clients
    /\ config \in Configs
    /\ llm_pc = "idle"
    /\ attempt = 0
    /\ outcomes = <<>>
    /\ sleeps = <<>>
    /\ llm_ret = PyNone
    /\ llm_calls = 0

InitVerifyIdle ==
    /\ v_pc = "idle"
    /\ v_snippets = Str(<<>>)
    /\ v_ret = PyNone

-----------------------------------------------------------------------------
(* agents.verify *)

LabelSupports == Str(<<"Supports">>)
LabelRefutes == Str(<<"Refutes">>)
LabelNeutral == Str(<<"Neutral">>)
Labels == {LabelSupports, LabelRefutes, LabelNeutral}

\* utils.execute_search returns the joined snippets (possibly "") or this value
SEARCH_API_ERROR == Str(<<"SEARCH_API_ERROR">>)

\* `"\\n".join(...)` in execute_search: the snippets are joined by the two
\* characters backslash and n
SnippetSeparator == "\\n"

\* The evidence texts explored: none, the sentinel, one snippet, two snippets
Evidence == {Str(<<>>), SEARCH_API_ERROR, Str(<<"e1">>),
             Str(<<"e1", SnippetSeparator, "e2">>)}

\* variant: the sentinel is not tested
verify_short_circuit_no_sentinel(evidence) == ~Truthy(evidence)

\* `if not snippets or snippets == "SEARCH_API_ERROR"`
verify_short_circuit(evidence) == ~Truthy(evidence) \/ evidence = SEARCH_API_ERROR

\* variant: any non-empty response is passed through
verify_normalize_passthrough(response) == IF Truthy(response) THEN response ELSE LabelNeutral

\* `response if response in ["Supports", "Refutes", "Neutral"] else "Neutral"`
verify_normalize(response) == IF response \in Labels THEN response ELSE LabelNeutral

\* Lines 140-150: verify(triple, snippets) up to its call of call_llm.  The
\* triple only enters the prompt text.
VerifyCall ==
    /\ v_pc \in {"idle", "returned", "raised"}
    /\ \E evidence \in Evidence :
        /\ v_snippets' = evidence
        /\ IF verify_short_circuit(evidence)
           THEN /\ v_pc' = "returned"
                /\ v_ret' = LabelNeutral
                /\ llm_pc' = "idle"
                /\ llm_calls' = 0
           ELSE /\ v_pc' = "awaiting"
                /\ v_ret' = PyNone
                /\ llm_pc' = "called"
                /\ llm_calls' = 1
    /\ attempt' = 0
    /\ outcomes' = <<>>
    /\ sleeps' = <<>>
    /\ llm_ret' = PyNone
    /\ UNCHANGED <<client, config, pipeVars, harVars, agVars>>

\* Line 151: call_llm has returned; normalise its value.
VerifyReturn ==
    /\ v_pc = "awaiting"
    /\ llm_pc = "returned"
    /\ v_pc' = "returned"
    /\ v_ret' = verify_normalize(llm_ret)
    /\ UNCHANGED <<llmVars, v_snippets, pipeVars, harVars, agVars>>

\* call_llm raised: verify has no handler, the exception leaves verify.
VerifyRaise ==
    /\ v_pc = "awaiting"
    /\ llm_pc = "raised"
    /\ v_pc' = "raised"
    /\ UNCHANGED <<llmVars, v_snippets, v_ret, pipeVars, harVars, agVars>>

-----------------------------------------------------------------------------
(* What the agents of agents.py make of a call_llm return value *)

\* The exception an unguarded call_llm lets through to its caller
Raised == [type |-> "raise"]

\* The values one call_llm invocation can hand its caller when the endpoint can
\* answer with any of `texts` (already stripped): the outcome of LLMEnter and
\* LLMAttempt taken together.
LLMResult(texts) ==
    IF client_missing(client) THEN {PyNone}
    ELSE IF range_raises(config) THEN {Raised}
    ELSE IF ~in_range(0, config) THEN {PyNone}
    ELSE {PyNone} \cup texts

\* A text together with what json.loads makes of it
JsonText(parsed) == [type |-> "str", val |-> <<"json">>, parsed |-> parsed]
JSONDecodeError == [kind |-> "JSONDecodeError"]
JsonArray == [kind |-> "list"]
JsonObject(fields) == [kind |-> "dict", fields |-> fields]

json_loads(text) == text.parsed

\* dict.get(key, default)
dict_get(d, key, default) == IF key \in DOMAIN d.fields THEN d.fields[key] ELSE default

T1 == <<"A", "nationality", "French">>
T2 == <<"B", "nationality", "American">>
Triples == {T1, T2}
Graphs == SeqsUpTo(Triples, MaxClaims)

QueryStrings == {"q1", "q2"}
QueryLists == SeqsUpTo(QueryStrings, MaxQueries)

\* What the model can answer the hypothesizer, the query generator, the
\* verifier and the answerer, as call_llm returns it
GraphTexts ==
    {Str(<<>>), JsonText(JSONDecodeError), JsonText(JsonArray),
     JsonText(JsonObject([reasoning |-> "r"]))}
    \cup {JsonText(JsonObject([reasoning |-> "r", triples |-> g])) : g \in Graphs}

QueryTexts ==
    {Str(<<>>), JsonText(JSONDecodeError), JsonText(JsonArray),
     JsonText(JsonObject([note |-> "n"]))}
    \cup {JsonText(JsonObject([queries |-> qs])) : qs \in QueryLists}

VerifierTexts == {Str(strip(raw)) : raw \in RawTexts}

AnswerTexts == {Str(<<>>), Str(<<"x">>)}

\* agents.generate_graph, from the value call_llm returned
generate_graph(raw_output) ==
    IF ~Truthy(raw_output) THEN <<>>
    ELSE LET data == json_loads(raw_output)
         IN  IF data.kind # "dict" THEN <<>>     \* JSONDecodeError, AttributeError
             ELSE dict_get(data, "triples", <<>>)

\* agents.generate_queries, from the value call_llm returned
generate_queries(raw_output) ==
    IF ~Truthy(raw_output) THEN <<>>
    ELSE LET data == json_loads(raw_output)
         IN  IF data.kind # "dict" THEN <<>>
             ELSE dict_get(data, "queries", <<>>)

INSUFFICIENT_ANSWER == Str(<<"INSUFFICIENT">>)    \* agents.py:158
ANSWER_ERROR == Str(<<"ANSWER_ERROR">>)           \* agents.py:170

\* variant: the response is returned as it is
generate_answer_result_raw(response) == response

\* `return response if response else "..."`
generate_answer_result(response) == IF Truthy(response) THEN response ELSE ANSWER_ERROR

\* variant: the model is asked even without evidence
answer_short_circuit_never(verified_evidence) == FALSE

\* `if not verified_evidence`
answer_short_circuit(verified_evidence) == verified_evidence = <<>>

\* str(list) of a triple, as the f-string of agents.py:163 renders it
TripleRepr(t) ==
    IF t = T1 THEN "['A', 'nationality', 'French']"
    ELSE "['B', 'nationality', 'American']"

\* The fixed parts of one entry of evidence_str (agents.py:163-164); the
\* labels stand for the source's "- 事实: " and "  证据: "
FactMarker == "- fact: "
EvidenceMarker == "  evidence: "

\* `.replace('\\n', ' ')`: each snippet separator becomes one space
replace_separator(s) ==
    [k \in 1..Len(s) |-> IF s[k] = SnippetSeparator THEN " " ELSE s[k]]

\* variant: the entries are accumulated in reverse order
RECURSIVE evidence_str_reversed(_)
evidence_str_reversed(verified_evidence) ==
    IF verified_evidence = <<>> THEN <<>>
    ELSE LET fact == Head(verified_evidence)
         IN  evidence_str_reversed(Tail(verified_evidence))
             \o <<FactMarker, TripleRepr(fact.triple), "\n", EvidenceMarker>>
             \o replace_separator(fact.evidence.val) \o <<"\n", "\n">>

\* Lines 161-164: the evidence block built from the verified facts
RECURSIVE evidence_str(_)
evidence_str(verified_evidence) ==
    IF verified_evidence = <<>> THEN <<>>
    ELSE LET fact == Head(verified_evidence)
         IN  <<FactMarker, TripleRepr(fact.triple), "\n", EvidenceMarker>>
             \o replace_separator(fact.evidence.val) \o <<"\n", "\n">>
             \o evidence_str(Tail(verified_evidence))

-----------------------------------------------------------------------------
(* main.run_pipeline *)

CallNames == {"generate_graph", "generate_queries", "execute_search", "verify",
              "generate_answer", "verify_llm", "answer_llm"}

Bump(names) == [n \in CallNames |-> IF n \in names THEN calls[n] + 1 ELSE calls[n]]

\* variant: only a missing graph counts as empty
graph_is_empty_none_only(g) == FALSE

\* `if not hypothesis_graph`
graph_is_empty(g) == g = <<>>

\* variant: any verdict other than Neutral is recorded
is_supports_or_refutes(result) == result # LabelNeutral

\* `if verification_result == "Supports"`
is_supports(result) == result = LabelSupports

\* variant: the loop over the triples ends after the current one
NextTripleStops(i, g) ==
    /\ p_i' = i
    /\ p_pc' = "Synthesizing"

\* The `for triple in hypothesis_graph` loop moves on from index i.
NextTriple(i, g) ==
    IF i < Len(g)
    THEN /\ p_i' = i + 1
         /\ p_pc' = "Planning"
    ELSE /\ p_i' = i
         /\ p_pc' = "Synthesizing"

\* An exception leaves run_pipeline, which has no handler.
PipelineRaises ==
    /\ p_pc' = "Raised"
    /\ UNCHANGED <<hypothesis_graph, verified_facts, p_i, queries, p_j, snippets,
                   is_verified, final_answer, p_ret, verdicts, fact_src, planned,
                   searched, search_texts, answer_call>>

\* Lines 19-34: generate_graph, the empty-graph exit, verified_facts = [].
GenerateGraph ==
    /\ p_pc = "Start"
    /\ calls' = Bump({"generate_graph"})
    /\ \E r \in LLMResult(GraphTexts) :
        IF r = Raised THEN PipelineRaises
        ELSE LET g == generate_graph(r)
             IN  /\ hypothesis_graph' = g
                 /\ verdicts' = [i \in 1..Len(g) |-> <<>>]
                 /\ planned' = [i \in 1..Len(g) |-> <<>>]
                 /\ searched' = [i \in 1..Len(g) |-> <<>>]
                 /\ search_texts' = [i \in 1..Len(g) |-> <<>>]
                 /\ IF graph_is_empty(g)
                    THEN /\ p_pc' = "Aborted"
                         /\ p_ret' = PyNone          \* bare `return`
                         /\ UNCHANGED p_i
                    ELSE /\ NextTriple(0, g)
                         /\ UNCHANGED p_ret
                 /\ UNCHANGED <<verified_facts, queries, p_j, snippets, is_verified,
                                final_answer, fact_src, answer_call>>
    /\ UNCHANGED <<llmVars, verVars, harVars, agVars>>

\* Lines 35-47: generate_queries for the current triple.
PlanQueries ==
    /\ p_pc = "Planning"
    /\ calls' = Bump({"generate_queries"})
    /\ \E r \in LLMResult(QueryTexts) :
        IF r = Raised THEN PipelineRaises
        ELSE LET qs == generate_queries(r)
             IN  /\ queries' = qs
                 /\ planned' = [planned EXCEPT ![p_i] = Append(@, Len(qs))]
                 /\ IF qs = <<>>
                    THEN /\ NextTriple(p_i, hypothesis_graph)       \* `continue`
                         /\ UNCHANGED <<p_j, is_verified>>
                    ELSE /\ p_pc' = "Search"
                         /\ p_j' = 1
                         /\ is_verified' = FALSE
                         /\ UNCHANGED p_i
                 /\ UNCHANGED <<hypothesis_graph, verified_facts, snippets, final_answer,
                                p_ret, verdicts, fact_src, searched, search_texts, answer_call>>
    /\ UNCHANGED <<llmVars, verVars, harVars, agVars>>

\* Line 49: execute_search for the current query.
ExecuteSearch ==
    /\ p_pc = "Search"
    /\ calls' = Bump({"execute_search"})
    /\ \E e \in Evidence :
        /\ snippets' = e
        /\ search_texts' = [search_texts EXCEPT ![p_i] = Append(@, e)]
    /\ searched' = [searched EXCEPT ![p_i] = Append(@, p_j)]
    /\ p_pc' = "Verify"
    /\ UNCHANGED <<hypothesis_graph, verified_facts, p_i, queries, p_j, is_verified,
                   final_answer, p_ret, verdicts, fact_src, planned, answer_call>>
    /\ UNCHANGED <<llmVars, verVars, harVars, agVars>>

\* variant: the evidence of the first query of the triple is recorded
evidence_for_triple_first(search_result) == search_texts[p_i][1]

\* `evidence_for_triple = snippets` (line 55)
evidence_for_triple(search_result) == search_result

\* The rest of one query iteration once verify has returned `result`
\* (lines 53-57), and the end of the query loop.
AfterVerdict(result) ==
    /\ verdicts' = [verdicts EXCEPT ![p_i] = Append(@, result)]
    /\ IF is_supports(result)
       THEN /\ is_verified' = TRUE
            /\ verified_facts' = Append(verified_facts,
                   [triple |-> hypothesis_graph[p_i],
                    evidence |-> evidence_for_triple(snippets)])
            /\ fact_src' = Append(fact_src, p_i)
            /\ NextTriple(p_i, hypothesis_graph)                  \* `break`
            /\ UNCHANGED p_j
       ELSE /\ UNCHANGED <<is_verified, verified_facts, fact_src>>
            /\ IF p_j < Len(queries)
               THEN /\ p_j' = p_j + 1
                    /\ p_pc' = "Search"
                    /\ UNCHANGED p_i
               ELSE /\ NextTriple(p_i, hypothesis_graph)
                    /\ UNCHANGED p_j
    /\ UNCHANGED <<hypothesis_graph, queries, snippets, final_answer, p_ret, planned,
                   searched, search_texts, answer_call>>

\* Lines 50-62: verify for the current query and what the loop does with the
\* verdict.
VerifyEvidence ==
    /\ p_pc = "Verify"
    /\ IF verify_short_circuit(snippets)
       THEN /\ calls' = Bump({"verify"})
            /\ AfterVerdict(LabelNeutral)
       ELSE /\ calls' = Bump({"verify", "verify_llm"})
            /\ \E r \in LLMResult(VerifierTexts) :
                IF r = Raised THEN PipelineRaises
                ELSE AfterVerdict(verify_normalize(r))
    /\ UNCHANGED <<llmVars, verVars, harVars, agVars>>

\* Lines 64-70: generate_answer (agents.py:153-170); run_pipeline then ends
\* without a return statement.
GenerateAnswer ==
    /\ p_pc = "Synthesizing"
    /\ IF answer_short_circuit(verified_facts)
       THEN /\ calls' = Bump({"generate_answer"})
            /\ answer_call' = [made |-> TRUE, facts |-> verified_facts, llm |-> FALSE]
            /\ final_answer' = INSUFFICIENT_ANSWER
            /\ p_pc' = "Done"
            /\ p_ret' = PyNone
            /\ UNCHANGED <<hypothesis_graph, verified_facts, p_i, queries, p_j, snippets,
                           is_verified, verdicts, fact_src, planned, searched, search_texts>>
       ELSE /\ calls' = Bump({"generate_answer", "answer_llm"})
            /\ \E r \in LLMResult(AnswerTexts) :
                /\ answer_call' = [made |-> TRUE, facts |-> verified_facts, llm |-> TRUE,
                                   prompt |-> evidence_str(verified_facts),
                                   response |-> r]
                /\ IF r = Raised
                   THEN /\ p_pc' = "Raised"
                        /\ UNCHANGED <<final_answer, p_ret>>
                   ELSE /\ final_answer' = generate_answer_result(r)
                        /\ p_pc' = "Done"
                        /\ p_ret' = PyNone
                /\ UNCHANGED <<hypothesis_graph, verified_facts, p_i, queries, p_j,
                               snippets, is_verified, verdicts, fact_src, planned,
                               searched, search_texts>>
    /\ UNCHANGED <<llmVars, verVars, harVars, agVars>>

\* The value p_ret holds while run_pipeline has not returned
NotReturned == [type |-> "not returned"]

\* The value answer_call holds while generate_answer has not been called
NoAnswerCall == [made |-> FALSE]

InitPipelineIdle ==
    /\ p_pc = "Start"
    /\ hypothesis_graph = <<>>
    /\ verified_facts = <<>>
    /\ p_i = 0
    /\ queries = <<>>
    /\ p_j = 0
    /\ snippets = Str(<<>>)
    /\ is_verified = FALSE
    /\ final_answer = PyNone
    /\ p_ret = NotReturned
    /\ calls = [n \in CallNames |-> 0]
    /\ verdicts = <<>>
    /\ fact_src = <<>>
    /\ planned = <<>>
    /\ searched = <<>>
    /\ search_texts = <<>>
    /\ answer_call = NoAnswerCall

\* The configurations a pipeline run is explored under: the retry section
\* missing, or present with no or with one attempt per call.
PipelineConfigs == {Undefined, RetrySection(0, 1), RetrySection(1, 1)}

-----------------------------------------------------------------------------
(* evaluation.py *)

\* `def run_pipeline(question: str)`: the parameters of main.run_pipeline
run_pipeline_params == {"question"}

\* `run_pipeline(question, verbose=False)`: the keyword arguments of the call
run_pipeline_call_keywords == {"verbose"}

\* Python binds the call only if every keyword names a parameter; otherwise
\* the call raises TypeError before the body of run_pipeline runs.
call_binds == run_pipeline_call_keywords \subseteq run_pipeline_params

\* What run_pipeline returns when it returns: the bare `return` of line 26 and
\* the end of the function body both give None.
PipelineReturns == {PyNone}

\* `pipeline_result['final_answer']` raises TypeError unless the value is a dict
subscriptable(v) == v.type = "dict"

\* What call_llm can return to agents.evaluate_answer
JudgeTexts ==
    {Str(<<>>), JsonText(JSONDecodeError), JsonText(JsonArray),
     JsonText(JsonObject([reasoning |-> "r"])),
     JsonText(JsonObject([reasoning |-> "r", decision |-> "Correct"])),
     JsonText(JsonObject([reasoning |-> "r", decision |-> "Incorrect"]))}

\* agents.evaluate_answer, from the value call_llm returned
evaluate_answer(raw_output) ==
    IF ~Truthy(raw_output)
    THEN JsonObject([decision |-> "Incorrect", reasoning |-> "no response"])
    ELSE LET data == json_loads(raw_output)
         IN  IF data.kind = "JSONDecodeError"
             THEN JsonObject([decision |-> "Incorrect", reasoning |-> "parse failure"])
             ELSE data

\* variant: the except branch reports the case as a success
ErrorRecordSucceeds(c) ==
    [success |-> 1, latency |-> 0, test_case |-> c,
     pipeline_result |-> [final_answer |-> "PIPELINE_ERROR", verified_facts |-> <<>>],
     reasoning |-> "An unexpected error occurred"]

\* The record of the `except Exception` branch of run_single_test
ErrorRecord(c) ==
    [success |-> 0, latency |-> 0, test_case |-> c,
     pipeline_result |-> [final_answer |-> "PIPELINE_ERROR", verified_facts |-> <<>>],
     reasoning |-> "An unexpected error occurred"]

\* The record of the try branch of run_single_test (lines 55-66)
JudgedRecord(c, pipeline_result, evaluation_result) ==
    LET decision == dict_get(evaluation_result, "decision", "Incorrect")
    IN  [success |-> IF decision = "Correct" THEN 1 ELSE 0,
         latency |-> pipeline_result.latency,
         test_case |-> c,
         pipeline_result |-> pipeline_result,
         reasoning |-> dict_get(evaluation_result, "reasoning", "N/A")]

Pending == [state |-> "pending"]
Finished(rec) == [state |-> "finished", result |-> rec]

Cases == 1..test_suite
Workers == 1..max_workers

\* Lines 76-97: load the suite, return if it is empty, else write the run
\* header and create the executor.
LoadSuite ==
    /\ h_pc = "start"
    /\ IF test_suite = 0
       THEN /\ h_pc' = "done"
            /\ UNCHANGED log
       ELSE /\ h_pc' = "submit"
            /\ log' = Append(log, [kind |-> "header"])
    /\ UNCHANGED <<test_suite, max_workers, submitted, work_queue, worker, future,
                   pre_finished, waiter, results, log_pc, completed, judge_calls,
                   pipeline_runs>>
    /\ UNCHANGED <<llmVars, verVars, pipeVars, agVars>>

\* Line 103: executor.submit(run_single_test, case) for the next case.
Submit ==
    /\ h_pc = "submit"
    /\ submitted < test_suite
    /\ submitted' = submitted + 1
    /\ work_queue' = Append(work_queue, submitted + 1)
    /\ UNCHANGED <<h_pc, test_suite, max_workers, worker, future, pre_finished, waiter,
                   results, log, log_pc, completed, judge_calls, pipeline_runs>>
    /\ UNCHANGED <<llmVars, verVars, pipeVars, agVars>>

\* variant: a worker takes the next case while it still runs one
WorkerTakeBusy(w) ==
    /\ work_queue # <<>>
    /\ worker' = [worker EXCEPT ![w] = Head(work_queue)]
    /\ work_queue' = Tail(work_queue)
    /\ UNCHANGED <<h_pc, test_suite, max_workers, submitted, future, pre_finished, waiter,
                   results, log, log_pc, completed, judge_calls, pipeline_runs>>
    /\ UNCHANGED <<llmVars, verVars, pipeVars, agVars>>

\* A worker thread of the pool takes the oldest queued case.
WorkerTake(w) ==
    /\ worker[w] = 0
    /\ work_queue # <<>>
    /\ worker' = [worker EXCEPT ![w] = Head(work_queue)]
    /\ work_queue' = Tail(work_queue)
    /\ UNCHANGED <<h_pc, test_suite, max_workers, submitted, future, pre_finished, waiter,
                   results, log, log_pc, completed, judge_calls, pipeline_runs>>
    /\ UNCHANGED <<llmVars, verVars, pipeVars, agVars>>

\* Lines 46-75: run_single_test for the case of worker w, and the completion
\* of its future.
RunSingleTest(w) ==
    /\ worker[w] # 0
    /\ LET c == worker[w]
       IN  /\ IF ~call_binds
              THEN /\ future' = [future EXCEPT ![c] = Finished(ErrorRecord(c))]
                   /\ UNCHANGED <<judge_calls, pipeline_runs>>
              ELSE \E pr \in PipelineReturns :
                   /\ pipeline_runs' = [pipeline_runs EXCEPT ![c] = @ + 1]
                   /\ IF ~subscriptable(pr)
                      THEN /\ future' = [future EXCEPT ![c] = Finished(ErrorRecord(c))]
                           /\ UNCHANGED judge_calls
                      ELSE \E r \in {PyNone} \cup JudgeTexts :
                           /\ judge_calls' = [judge_calls EXCEPT ![c] = @ + 1]
                           /\ future' = [future EXCEPT ![c] =
                                  IF evaluate_answer(r).kind = "dict"
                                  THEN Finished(JudgedRecord(c, pr, evaluate_answer(r)))
                                  ELSE Finished(ErrorRecord(c))]
           /\ waiter' = IF h_pc = "collect" THEN Append(waiter, c) ELSE waiter
           /\ completed' = Append(completed, [test_case |-> c, early |-> h_pc # "collect"])
    /\ worker' = [worker EXCEPT ![w] = 0]
    /\ UNCHANGED <<h_pc, test_suite, max_workers, submitted, work_queue, pre_finished,
                   results, log, log_pc>>
    /\ UNCHANGED <<llmVars, verVars, pipeVars, agVars>>

\* Line 105: as_completed(future_to_case) is called once every case is
\* submitted; it first notes the futures that are finished already.
BeginCollect ==
    /\ h_pc = "submit"
    /\ submitted = test_suite
    /\ h_pc' = "collect"
    /\ pre_finished' = {c \in Cases : future[c].state = "finished"}
    /\ UNCHANGED <<test_suite, max_workers, submitted, work_queue, worker, future, waiter,
                   results, log, log_pc, completed, judge_calls, pipeline_runs>>
    /\ UNCHANGED <<llmVars, verVars, pipeVars, agVars>>

\* The section log_result writes for one result
LogSection(rec) ==
    [kind |-> "section", test_case |-> rec.test_case, success |-> rec.success,
     final_answer |-> rec.pipeline_result.final_answer]

\* The closing line log_result writes for one result (line 44)
LogSectionEnd(c) == [kind |-> "end", test_case |-> c]

\* variant: the loop goes on while log_result is still writing
log_result_returned_always == TRUE

\* The main thread runs the loop body in sequence: log_result (line 108) has
\* returned before the next future is taken or the summary is written.
log_result_returned == log_pc = 0

\* variant: the future that finished last is yielded first
next_finished_newest(finished) == finished[Len(finished)]

\* as_completed yields the futures that finish while it waits oldest first
next_finished(finished) == Head(finished)

Without(seq, c) == SelectSeq(seq, LAMBDA x : x # c)

\* Lines 105-108: one iteration of the as_completed loop up to the opening
\* lines of the section: the futures found finished at the call come first,
\* in no particular order, then the others in completion order.
Collect ==
    /\ h_pc = "collect"
    /\ log_result_returned
    /\ \E c \in Cases :
        /\ \/ c \in pre_finished
           \/ pre_finished = {} /\ waiter # <<>> /\ c = next_finished(waiter)
        /\ pre_finished' = pre_finished \ {c}
        /\ waiter' = IF c \in pre_finished THEN waiter ELSE Without(waiter, c)
        /\ results' = Append(results, future[c].result)
        /\ log' = Append(log, LogSection(future[c].result))
        /\ log_pc' = c
    /\ UNCHANGED <<h_pc, test_suite, max_workers, submitted, work_queue, worker, future,
                   completed, judge_calls, pipeline_runs>>
    /\ UNCHANGED <<llmVars, verVars, pipeVars, agVars>>

\* Lines 43-44 and 109: log_result writes the last lines of the section and
\* returns.
LogResultEnd ==
    /\ log_pc # 0
    /\ log' = Append(log, LogSectionEnd(log_pc))
    /\ log_pc' = 0
    /\ UNCHANGED <<h_pc, test_suite, max_workers, submitted, work_queue, worker, future,
                   pre_finished, waiter, results, completed, judge_calls, pipeline_runs>>
    /\ UNCHANGED <<llmVars, verVars, pipeVars, agVars>>

RECURSIVE SumSuccess(_)
SumSuccess(rs) == IF rs = <<>> THEN 0 ELSE Head(rs).success + SumSuccess(Tail(rs))

\* variant: only the successes are counted as samples
total_samples_successes(rs) == SumSuccess(rs)

\* `len(results)` (lines 123, 129)
total_samples(rs) == Len(rs)

\* Lines 111-136: the loop is over; the summary is computed and written.
Summarize ==
    /\ h_pc = "collect"
    /\ log_result_returned
    /\ Len(results) = test_suite
    /\ h_pc' = "done"
    /\ log' = Append(log, [kind |-> "summary", total_samples |-> total_samples(results),
                           successes |-> SumSuccess(results)])
    /\ UNCHANGED <<test_suite, max_workers, submitted, work_queue, worker, future,
                   pre_finished, waiter, results, log_pc, completed, judge_calls,
                   pipeline_runs>>
    /\ UNCHANGED <<llmVars, verVars, pipeVars, agVars>>

InitHarness ==
    /\ h_pc = "start"
    /\ test_suite \in 0..MaxCases
    /\ max_workers \in 1..MaxWorkers
    /\ submitted = 0
    /\ work_queue = <<>>
    /\ worker = [w \in Workers |-> 0]
    /\ future = [c \in Cases |-> Pending]
    /\ pre_finished = {}
    /\ waiter = <<>>
    /\ results = <<>>
    /\ log = <<>>
    /\ log_pc = 0
    /\ completed = <<>>
    /\ judge_calls = [c \in Cases |-> 0]
    /\ pipeline_runs = [c \in Cases |-> 0]

\* The harness variables while no evaluation runs
InitHarnessIdle ==
    /\ InitHarness
    /\ test_suite = 0
    /\ max_workers = 1

-----------------------------------------------------------------------------
(* agents.generate_graph, generate_queries and evaluate_answer called on their own *)

\* Claims the hypothesizer model can return: triples, and lists of two and of
\* four elements
ClaimsWide == Triples \cup {<<"A", "nationality">>, <<"A", "nationality", "French", "x">>}
GraphsWide == SeqsUpTo(ClaimsWide, MaxClaims)

HypothesizerTexts ==
    {Str(<<>>), JsonText(JSONDecodeError), JsonText(JsonArray),
     JsonText(JsonObject([reasoning |-> "r"]))}
    \cup {JsonText(JsonObject([reasoning |-> "r", triples |-> g])) : g \in GraphsWide}

\* Query lists the query-generator model can return
PlannerLists == SeqsUpTo(QueryStrings, MaxPlannerQueries)

PlannerTexts ==
    {Str(<<>>), JsonText(JSONDecodeError), JsonText(JsonArray),
     JsonText(JsonObject([note |-> "n"]))}
    \cup {JsonText(JsonObject([queries |-> qs])) : qs \in PlannerLists}

\* agents.py:102-120: one generate_graph(question) call
CallGenerateGraph ==
    /\ ag_fn' = "generate_graph"
    /\ \E r \in LLMResult(HypothesizerTexts) :
        /\ ag_arg' = r
        /\ IF r = Raised
           THEN /\ ag_pc' = "raised"
                /\ ag_ret' = <<>>
           ELSE /\ ag_pc' = "returned"
                /\ ag_ret' = generate_graph(r)
    /\ UNCHANGED <<llmVars, verVars, pipeVars, harVars>>

\* agents.py:122-138: one generate_queries(triple) call
CallGenerateQueries ==
    /\ ag_fn' = "generate_queries"
    /\ \E r \in LLMResult(PlannerTexts) :
        /\ ag_arg' = r
        /\ IF r = Raised
           THEN /\ ag_pc' = "raised"
                /\ ag_ret' = <<>>
           ELSE /\ ag_pc' = "returned"
                /\ ag_ret' = generate_queries(r)
    /\ UNCHANGED <<llmVars, verVars, pipeVars, harVars>>

\* agents.py:172-190: one evaluate_answer(question, ideal_answer,
\* generated_answer) call
CallEvaluateAnswer ==
    /\ ag_fn' = "evaluate_answer"
    /\ \E r \in LLMResult(JudgeTexts) :
        /\ ag_arg' = r
        /\ IF r = Raised
           THEN /\ ag_pc' = "raised"
                /\ ag_ret' = <<>>
           ELSE /\ ag_pc' = "returned"
                /\ ag_ret' = evaluate_answer(r)
    /\ UNCHANGED <<llmVars, verVars, pipeVars, harVars>>

InitAgentsIdle ==
    /\ ag_pc = "idle"
    /\ ag_fn = "none"
    /\ ag_arg = PyNone
    /\ ag_ret = <<>>

-----------------------------------------------------------------------------
(* Specifications *)

\* call_llm alone, invoked again and again under one configuration
SpecLLMInit == InitLLM /\ InitVerifyIdle /\ InitPipelineIdle /\ InitHarnessIdle /\ InitAgentsIdle

SpecLLMNext ==
    \/ CallLLM /\ UNCHANGED <<verVars, pipeVars, harVars, agVars>>
    \/ LLMEnter /\ UNCHANGED <<verVars, pipeVars, harVars, agVars>>
    \/ LLMAttempt /\ UNCHANGED <<verVars, pipeVars, harVars, agVars>>

SpecLLM == SpecLLMInit /\ [][SpecLLMNext]_vars

\* verify, invoked again and again, with the call_llm it makes
SpecVerifyInit == InitLLM /\ InitVerifyIdle /\ InitPipelineIdle /\ InitHarnessIdle /\ InitAgentsIdle

SpecVerifyNext ==
    \/ VerifyCall
    \/ LLMEnter /\ UNCHANGED <<verVars, pipeVars, harVars, agVars>>
    \/ LLMAttempt /\ UNCHANGED <<verVars, pipeVars, harVars, agVars>>
    \/ VerifyReturn
    \/ VerifyRaise

SpecVerify == SpecVerifyInit /\ [][SpecVerifyNext]_vars

\* one run_pipeline invocation, the agents summarised by their results
SpecPipelineInit ==
    /\ InitLLM
    /\ config \in PipelineConfigs
    /\ InitVerifyIdle
    /\ InitPipelineIdle
    /\ InitHarnessIdle
    /\ InitAgentsIdle

SpecPipelineNext ==
    \/ GenerateGraph
    \/ PlanQueries
    \/ ExecuteSearch
    \/ VerifyEvidence
    \/ GenerateAnswer

SpecPipeline == SpecPipelineInit /\ [][SpecPipelineNext]_vars

\* run_pipeline when every call it makes returns: a run that can take a step
\* eventually takes one
SpecPipelineLive == SpecPipeline /\ WF_vars(SpecPipelineNext)

\* one run_evaluation_framework invocation with its worker threads; the
\* configuration is that of config.py, under which the client is None
SpecHarnessInit ==
    /\ InitLLM
    /\ client = "None"
    /\ config = Undefined
    /\ InitVerifyIdle
    /\ InitPipelineIdle
    /\ InitHarness
    /\ InitAgentsIdle

SpecHarnessNext ==
    \/ LoadSuite
    \/ Submit
    \/ \E w \in Workers : WorkerTake(w)
    \/ \E w \in Workers : RunSingleTest(w)
    \/ BeginCollect
    \/ Collect
    \/ LogResultEnd
    \/ Summarize

SpecHarness == SpecHarnessInit /\ [][SpecHarnessNext]_vars

\* generate_graph and generate_queries, invoked again and again
SpecAgentsInit ==
    /\ InitLLM
    /\ InitVerifyIdle
    /\ InitPipelineIdle
    /\ InitHarnessIdle
    /\ InitAgentsIdle

SpecAgentsNext ==
    \/ CallGenerateGraph
    \/ CallGenerateQueries
    \/ CallEvaluateAnswer

SpecAgents == SpecAgentsInit /\ [][SpecAgentsNext]_vars

-----------------------------------------------------------------------------
(* Properties of call_llm (SpecLLM) *)

LastOutcome == outcomes[Len(outcomes)]
Succeeded == outcomes # <<>> /\ ~Failed(LastOutcome)

\* C6: one call_llm invocation makes at most MAX_RETRIES network attempts; no
\* attempt follows a successful one, and the value returned after a success
\* is the text of that attempt (as call_llm delivers it, stripped); with a
\* client and an endpoint that fails at every attempt, exactly MAX_RETRIES
\* attempts are made and None is returned.
C6_AttemptCount ==
    config.defined =>
        /\ Len(outcomes) <= config.MAX_RETRIES
        /\ \A k \in 1..(Len(outcomes) - 1) : Failed(outcomes[k])
        /\ Succeeded => llm_pc = "returned" /\ llm_ret = Str(strip(LastOutcome.content))
        /\ (llm_pc = "returned" /\ client = "OpenAI" /\ AllFailed(outcomes)) =>
               Len(outcomes) = config.MAX_RETRIES /\ llm_ret = PyNone

C6_Witness ==
    /\ llm_pc = "returned"
    /\ config.defined
    /\ Len(outcomes) = 3
    /\ AllFailed(outcomes)
    /\ llm_ret = PyNone

C8_Backoff ==
    config.defined =>
        /\ \A k \in 1..Len(sleeps) :
              LET lo == config.INITIAL_BACKOFF * Pow2(k - 1) * TicksPerSecond
              IN  /\ sleeps[k] >= lo
                  /\ sleeps[k] <= lo + JitterRange * TicksPerSecond
                  /\ k <= Len(outcomes) /\ Failed(outcomes[k])
        /\ \A k \in 1..(Len(sleeps) - 1) :
              sleeps[k + 1] >= 2 * (sleeps[k] - JitterRange * TicksPerSecond)
        /\ llm_pc = "attempt" => Len(sleeps) = Len(outcomes)
        /\ (llm_pc = "returned" /\ outcomes # <<>>) => Len(sleeps) = Len(outcomes) - 1

C8_Witness ==
    /\ llm_pc = "returned"
    /\ AllFailed(outcomes)
    /\ Len(outcomes) = 3
    /\ Len(sleeps) = 2

\* C28: when the module-level client is None, call_llm returns None at once:
\* the retry loop is never entered, so there is no attempt and no backoff
\* wait, and nothing is raised, whatever the retry configuration is (even a
\* missing one).
C28_NoClientNoAttempt ==
    client = "None" =>
        /\ llm_pc \in {"idle", "called", "returned"}
        /\ outcomes = <<>>
        /\ sleeps = <<>>
        /\ attempt = 0
        /\ llm_ret = PyNone

C28_Witness ==
    /\ client = "None"
    /\ llm_pc = "returned"
    /\ llm_calls = 1
    /\ config.defined
    /\ config.MAX_RETRIES = MaxRetriesBound
    /\ outcomes = <<>>

-----------------------------------------------------------------------------
(* Properties of run_pipeline (SpecPipeline) *)

RecordsOf(i) == {k \in 1..Len(fact_src) : fact_src[k] = i}
HasSupports(vs) == \E n \in 1..Len(vs) : vs[n] = LabelSupports

\* C1: first-Supports-wins.  For every triple of the graph, verified_facts
\* holds at most one record for it, and holds one exactly when some query of
\* the triple got the verdict Supports; queries are taken in planner order;
\* a Supports verdict is the last verdict of its triple, and no query of a
\* triple is searched or verified once the triple has a Supports verdict.
C1_FirstSupportsWins ==
    /\ Len(fact_src) = Len(verified_facts)
    /\ \A k \in 1..Len(fact_src) :
          verified_facts[k].triple = hypothesis_graph[fact_src[k]]
    /\ \A i \in 1..Len(hypothesis_graph) :
          LET vs == verdicts[i]
          IN  /\ Cardinality(RecordsOf(i)) <= 1
              /\ (RecordsOf(i) # {}) <=> HasSupports(vs)
              /\ \A n \in 1..(Len(vs) - 1) : vs[n] # LabelSupports
              /\ (p_i = i /\ p_pc \in {"Search", "Verify"}) =>
                     /\ ~HasSupports(vs)
                     /\ Len(vs) = p_j - 1
                     /\ p_j <= Len(queries)

C1_Witness ==
    /\ p_pc = "Done"
    /\ Len(hypothesis_graph) = 2
    /\ Len(queries) = 2
    /\ verdicts[1] = <<LabelRefutes, LabelSupports>>
    /\ verdicts[2] = <<LabelSupports>>
    /\ Len(verified_facts) = 2

NoDownstreamCalls ==
    \A n \in CallNames \ {"generate_graph"} : calls[n] = 0

\* C2: if generate_graph returns an empty graph, run_pipeline ends at once:
\* no query-planner, search, verifier or answerer call (and no model call on
\* their behalf) is ever made.
C2_EmptyGraphNoCalls ==
    (calls["generate_graph"] = 1 /\ p_pc # "Raised" /\ hypothesis_graph = <<>>) =>
        /\ p_pc = "Aborted"
        /\ NoDownstreamCalls

C2_Witness ==
    /\ p_pc = "Aborted"
    /\ client = "OpenAI"
    /\ config.defined
    /\ in_range(0, config)

\* C3: with an empty claim graph, run_pipeline ends in Aborted and returns a
\* PipelineResult with an empty verified-fact list and the fixed "cannot
\* generate hypothesis" answer.
C3_AbortedResult ==
    p_pc = "Aborted" =>
        /\ p_ret.type = "dict"
        /\ p_ret.verified_facts = <<>>
        /\ p_ret.final_answer = Str(<<"CANNOT_GENERATE_HYPOTHESIS">>)

\* C4: a run that reaches Done returns a PipelineResult carrying the claim
\* graph, the verified facts, the final answer and the elapsed duration.
C4_DoneResult ==
    p_pc = "Done" =>
        /\ p_ret.type = "dict"
        /\ p_ret.hypothesis_graph = hypothesis_graph
        /\ p_ret.verified_facts = verified_facts
        /\ p_ret.final_answer = final_answer
        /\ "latency" \in DOMAIN p_ret

-----------------------------------------------------------------------------
(* Properties of generate_answer within run_pipeline (SpecPipeline) *)

NoSupportsAnywhere == \A i \in 1..Len(hypothesis_graph) : ~HasSupports(verdicts[i])

\* C11: given an empty list of verified facts, generate_answer returns the
\* fixed insufficient-evidence message and makes no model call; hence a run in
\* which no triple got the verdict Supports ends with that message.
C11_AnswererShortCircuit ==
    /\ (answer_call.made /\ answer_call.facts = <<>>) =>
           /\ final_answer = INSUFFICIENT_ANSWER
           /\ ~answer_call.llm
           /\ calls["answer_llm"] = 0
    /\ (p_pc = "Done" /\ NoSupportsAnywhere) =>
           /\ answer_call.made
           /\ answer_call.facts = <<>>
           /\ final_answer = INSUFFICIENT_ANSWER

C11_Witness ==
    /\ p_pc = "Done"
    /\ Len(hypothesis_graph) = 2
    /\ verdicts[1] = <<LabelRefutes, LabelNeutral>>
    /\ planned[2] = <<0>>
    /\ final_answer = INSUFFICIENT_ANSWER

\* The entries of an evidence block: each starts at a fact marker.
RECURSIVE SplitEntries(_)
SplitEntries(block) ==
    IF block = <<>> THEN <<>>
    ELSE LET later == {k \in 2..Len(block) : block[k] = FactMarker}
             stop == IF later = {} THEN Len(block) + 1
                     ELSE CHOOSE k \in later : \A m \in later : k <= m
         IN  <<SubSeq(block, 1, stop - 1)>> \o SplitEntries(SubSeq(block, stop, Len(block)))

WellFormedEntry(e) ==
    /\ Len(e) >= 6
    /\ e[1] = FactMarker
    /\ e[3] = "\n"
    /\ e[4] = EvidenceMarker
    /\ e[Len(e) - 1] = "\n"
    /\ e[Len(e)] = "\n"

EntryTriple(e) == e[2]
EntryEvidence(e) == SubSeq(e, 5, Len(e) - 2)

\* C12 as stated: the evidence block passed to the model holds one entry per
\* record, in the order of the list, each with the triple and with exactly the
\* evidence of its record.
C12_Original ==
    (answer_call.made /\ answer_call.llm) =>
        LET es == SplitEntries(answer_call.prompt)
            fs == answer_call.facts
        IN  /\ Len(es) = Len(fs)
            /\ \A k \in 1..Len(es) :
                  /\ WellFormedEntry(es[k])
                  /\ EntryTriple(es[k]) = TripleRepr(fs[k].triple)
                  /\ EntryEvidence(es[k]) = fs[k].evidence.val

\* The text ev with every snippet separator turned into one space is out.
SameButSeparators(ev, out) ==
    /\ Len(out) = Len(ev)
    /\ \A n \in 1..Len(ev) :
          IF ev[n] = SnippetSeparator THEN out[n] = " " ELSE out[n] = ev[n]

\* C12 amended: the evidence block passed to the model holds one entry per
\* record, in the order of the list, nothing added or dropped; each entry has
\* the triple of its record and the evidence of its record in which every
\* snippet separator is replaced by a space.
C12_EvidenceBlock ==
    (answer_call.made /\ answer_call.llm) =>
        LET es == SplitEntries(answer_call.prompt)
            fs == answer_call.facts
        IN  /\ fs = verified_facts
            /\ Len(es) = Len(fs)
            /\ \A k \in 1..Len(es) :
                  /\ WellFormedEntry(es[k])
                  /\ EntryTriple(es[k]) = TripleRepr(fs[k].triple)
                  /\ SameButSeparators(fs[k].evidence.val, EntryEvidence(es[k]))

C12_Witness ==
    /\ answer_call.made
    /\ answer_call.llm
    /\ Len(verified_facts) = 2
    /\ verified_facts[1].triple = T1
    /\ verified_facts[2].triple = T2
    /\ verified_facts[1].evidence = Str(<<"e1", SnippetSeparator, "e2">>)
    /\ verified_facts[2].evidence = Str(<<"e1">>)

\* C13: when the model call of generate_answer fails (call_llm returns None
\* after its retries), generate_answer returns the fixed error answer and
\* raises nothing, so the run reaches Done with that answer.
C13_AnswerError ==
    (answer_call.made /\ answer_call.llm /\ answer_call.response = PyNone) =>
        /\ p_pc = "Done"
        /\ final_answer = ANSWER_ERROR

C13_Witness ==
    /\ p_pc = "Done"
    /\ answer_call.made
    /\ answer_call.llm
    /\ answer_call.response = PyNone
    /\ final_answer = ANSWER_ERROR
    /\ config.defined

-----------------------------------------------------------------------------
(* Properties of the loops of run_pipeline (SpecPipeline) *)

\* Triple i has been through the query loop: planned once, and its queries
\* evaluated up to a Supports verdict or to the end of the list.
Processed(i) ==
    /\ Len(planned[i]) = 1
    /\ \/ HasSupports(verdicts[i])
       \/ Len(verdicts[i]) = planned[i][1]

\* C14: run_pipeline calls the answerer at most once, never before every
\* triple of the graph has been processed, and exactly once by the time a
\* run with a non-empty graph is Done; the argument is the whole list of
\* verified facts, which is a subsequence of the graph in graph order.
C14_AnswererOnce ==
    /\ calls["generate_answer"] <= 1
    /\ answer_call.made <=> calls["generate_answer"] = 1
    /\ p_pc = "Done" => answer_call.made /\ hypothesis_graph # <<>>
    /\ p_pc \in {"Start", "Planning", "Search", "Verify", "Synthesizing", "Aborted"} =>
           ~answer_call.made
    /\ answer_call.made =>
           /\ \A i \in 1..Len(hypothesis_graph) : Processed(i)
           /\ answer_call.facts = verified_facts
    /\ \A k \in 1..Len(verified_facts) :
           /\ fact_src[k] \in 1..Len(hypothesis_graph)
           /\ verified_facts[k].triple = hypothesis_graph[fact_src[k]]
           /\ k > 1 => fact_src[k - 1] < fact_src[k]

C14_Witness ==
    /\ p_pc = "Done"
    /\ Len(hypothesis_graph) = 2
    /\ hypothesis_graph[1] = T2
    /\ hypothesis_graph[2] = T1
    /\ Len(verified_facts) = 2
    /\ answer_call.llm

\* What a query iteration does after a verdict that is not Supports, as a
\* function of the state before it: the verdict itself does not occur in it.
ContinuesQueryLoop ==
    /\ verified_facts' = verified_facts
    /\ fact_src' = fact_src
    /\ is_verified' = is_verified
    /\ calls' = IF verify_short_circuit(snippets)
                THEN Bump({"verify"}) ELSE Bump({"verify", "verify_llm"})
    /\ IF p_j < Len(queries)
       THEN p_pc' = "Search" /\ p_j' = p_j + 1 /\ p_i' = p_i
       ELSE /\ p_j' = p_j
            /\ IF p_i < Len(hypothesis_graph)
               THEN p_pc' = "Planning" /\ p_i' = p_i + 1
               ELSE p_pc' = "Synthesizing" /\ p_i' = p_i

VerdictStep(labels) ==
    /\ p_pc = "Verify"
    /\ Len(verdicts'[p_i]) = Len(verdicts[p_i]) + 1
    /\ verdicts'[p_i][Len(verdicts'[p_i])] \in labels

\* C15: run_pipeline handles Refutes and Neutral identically.  After either
\* verdict the step is the same function of the state before it: no record is
\* added, the query loop goes on with the next query or, at the end of the
\* list, with the next triple, and the same calls are counted; so exchanging
\* Refutes for Neutral changes neither the calls that follow nor the verified
\* facts.  A triple without a Supports verdict has no record.
C15_RefutesLikeNeutral ==
    /\ [][VerdictStep({LabelRefutes, LabelNeutral}) => ContinuesQueryLoop]_vars
    /\ [](\A i \in 1..Len(hypothesis_graph) :
             ~HasSupports(verdicts[i]) => RecordsOf(i) = {})

C15_Witness ==
    /\ p_pc = "Synthesizing"
    /\ Len(hypothesis_graph) = 1
    /\ verdicts[1] = <<LabelNeutral, LabelRefutes>>
    /\ snippets \notin {Str(<<>>), SEARCH_API_ERROR}
    /\ verified_facts = <<>>

C17_NoSearchRetry ==
    /\ [](\A i \in 1..Len(hypothesis_graph) :
             /\ \A k \in 1..Len(searched[i]) : searched[i][k] = k
             /\ Len(planned[i]) = 1 => Len(searched[i]) <= planned[i][1])
    /\ [][(p_pc = "Verify" /\ snippets = SEARCH_API_ERROR) =>
             /\ VerdictStep({LabelNeutral})
             /\ calls'["verify_llm"] = calls["verify_llm"]
             /\ calls'["execute_search"] = calls["execute_search"]
             /\ p_j < Len(queries) => p_pc' = "Search" /\ p_j' = p_j + 1 /\ p_i' = p_i]_vars

C17_Witness ==
    /\ p_pc = "Search"
    /\ p_j = 2
    /\ snippets = SEARCH_API_ERROR
    /\ verdicts[p_i] = <<LabelNeutral>>
    /\ searched[p_i] = <<1>>
    /\ calls["verify_llm"] = 0
    /\ client = "OpenAI"
    /\ in_range(0, config)

\* The stages of a run, in order: Start, VerifyingClaims (hypothesizing is the
\* step that leaves Start), Synthesizing, and the two ends Done and Aborted
Stage(pc) ==
    CASE pc = "Start" -> 0
      [] pc \in {"Planning", "Search", "Verify"} -> 1
      [] pc = "Synthesizing" -> 2
      [] pc \in {"Done", "Aborted"} -> 3
      [] OTHER -> 4

SupportingQuery(i) == CHOOSE n \in 1..Len(verdicts[i]) : verdicts[i][n] = LabelSupports

\* C27: the evidence of every record of verified_facts is the text
\* execute_search returned for the query of that record's triple whose verdict
\* was Supports: not the text of an earlier query of the triple, nor of a
\* query of another triple.
C27_EvidenceOfSupportingQuery ==
    \A k \in 1..Len(verified_facts) :
        LET i == fact_src[k]
        IN  /\ HasSupports(verdicts[i])
            /\ Len(search_texts[i]) = Len(verdicts[i])
            /\ verified_facts[k].evidence = search_texts[i][SupportingQuery(i)]

C27_Witness ==
    /\ p_pc = "Done"
    /\ Len(verified_facts) = 2
    /\ verdicts[1] = <<LabelRefutes, LabelSupports>>
    /\ search_texts[1][1] # search_texts[1][2]
    /\ search_texts[1][2] # search_texts[2][Len(search_texts[2])]
    /\ verified_facts[1].evidence = search_texts[1][2]

-----------------------------------------------------------------------------
(* Properties of generate_graph and generate_queries (SpecAgents) *)

\* C18: generate_graph is strict reject-or-accept: every claim of a graph it
\* returns has exactly three elements, a malformed response giving the empty
\* graph.
C18_StrictGraph ==
    (ag_pc = "returned" /\ ag_fn = "generate_graph") =>
        \A k \in 1..Len(ag_ret) : Len(ag_ret[k]) = 3

\* C19: generate_queries hands its caller at most three queries.
C19_AtMostThreeQueries ==
    (ag_pc = "returned" /\ ag_fn = "generate_queries") =>
        Len(ag_ret) <= QUERY_LIMIT

\* A judge response that holds no verdict: no response, invalid JSON, a
\* payload that is not an object, or an object without a decision
JudgeUnusable(raw_output) ==
    \/ ~Truthy(raw_output)
    \/ json_loads(raw_output).kind # "dict"
    \/ "decision" \notin DOMAIN json_loads(raw_output).fields

\* C21: when the judge's response cannot be turned into a verdict,
\* evaluate_answer hands run_single_test a verdict object whose decision,
\* read as run_single_test reads it (`.get("decision", "Incorrect")`), is
\* Incorrect.
C21_JudgeDefault ==
    (ag_pc = "returned" /\ ag_fn = "evaluate_answer" /\ JudgeUnusable(ag_arg)) =>
        /\ ag_ret.kind = "dict"
        /\ dict_get(ag_ret, "decision", "Incorrect") = "Incorrect"

-----------------------------------------------------------------------------
(* Properties of the evaluation harness (SpecHarness) *)

\* C5: for every test case, run_single_test runs run_pipeline to completion
\* and then calls the judge once; the record's success is true exactly when
\* the judge's decision is Correct.
C5_JudgedAfterPipeline ==
    \A c \in Cases :
        future[c].state = "finished" =>
            /\ pipeline_runs[c] = 1
            /\ judge_calls[c] = 1

\* The positions of results, and of the log, that belong to case c
ResultsOf(c) == {k \in 1..Len(results) : results[k].test_case = c}
SectionsOf(c) == {k \in 1..Len(log) : log[k].kind = "section" /\ log[k].test_case = c}

\* The record of a case whose processing raised
IsFailedRecord(rec) ==
    /\ rec.success = 0
    /\ rec.pipeline_result.final_answer = "PIPELINE_ERROR"
    /\ rec.pipeline_result.verified_facts = <<>>
    /\ rec.reasoning = "An unexpected error occurred"

\* C20: the harness produces exactly one record per submitted case and logs
\* it exactly once, under every interleaving of the workers: a case is never
\* recorded twice, its record is the one its task returned, and when the run
\* is done every case has one record and one log section.  A case whose
\* processing raised (no judge verdict was obtained) has a failed record, and
\* the run can always go on until it is done.
C20_OneRecordPerCase ==
    /\ \A c \in Cases :
          /\ Cardinality(ResultsOf(c)) <= 1
          /\ Cardinality(SectionsOf(c)) = Cardinality(ResultsOf(c))
          /\ \A k \in ResultsOf(c) :
                 future[c].state = "finished" /\ results[k] = future[c].result
          /\ (future[c].state = "finished" /\ judge_calls[c] = 0) =>
                 IsFailedRecord(future[c].result)
          /\ h_pc = "done" => Cardinality(ResultsOf(c)) = 1
    /\ h_pc = "done" => Len(results) = test_suite
    /\ h_pc # "done" => ENABLED SpecHarnessNext

C20_Witness ==
    /\ h_pc = "done"
    /\ test_suite = 3
    /\ max_workers = 2
    /\ Len(results) = 3
    /\ results[1].test_case = 3
    /\ results[3].test_case = 1
    /\ \A c \in Cases : pipeline_runs[c] = 0 /\ IsFailedRecord(future[c].result)

\* The entries of the log that open a section, in log order
Sections == SelectSeq(log, LAMBDA e : e.kind = "section")

\* C22: appends to the log are mutually exclusive.  Every section is written
\* in one piece (its closing line directly follows its opening lines, or it is
\* the one section still being written), so at most one append is in progress
\* and sections of different cases never interleave; the result list grows
\* with the log, in the same order; and no step of a worker thread changes
\* the log or the result list.
C22_SerializedAppends ==
    /\ [](/\ \A k \in 1..Len(log) :
               /\ log[k].kind = "section" =>
                      IF k < Len(log)
                      THEN log[k + 1] = LogSectionEnd(log[k].test_case)
                      ELSE log_pc = log[k].test_case
               /\ log[k].kind = "end" =>
                      /\ k > 1
                      /\ log[k - 1].kind = "section"
                      /\ log[k - 1].test_case = log[k].test_case
          /\ log_pc # 0 =>
                 /\ log # <<>>
                 /\ log[Len(log)].kind = "section"
                 /\ log[Len(log)].test_case = log_pc
          /\ Len(results) = Len(Sections)
          /\ \A n \in 1..Len(results) : results[n].test_case = Sections[n].test_case)
    /\ [][(log' # log \/ results' # results) => (worker' = worker /\ future' = future)]_vars

C22_Witness ==
    /\ log_pc # 0
    /\ Len(results) = 1
    /\ \E w \in Workers : worker[w] # 0 /\ worker[w] # log_pc
    /\ \E c \in Cases : future[c].state = "finished" /\ ResultsOf(c) = {}

\* The cases some worker is running
Running == {c \in Cases : \E w \in Workers : worker[w] = c}

\* C23: bounded worker pool.  At most max_workers cases are being processed
\* at any moment, no case by two workers; a case being processed is submitted,
\* no longer queued and not finished; and a worker changes its case only by
\* taking the oldest queued case when it is idle, or by finishing the case it
\* runs, whose future is then finished.
C23_BoundedPool ==
    /\ [](/\ Cardinality(Running) <= max_workers
          /\ \A w1, w2 \in Workers :
                 (w1 # w2 /\ worker[w1] # 0) => worker[w1] # worker[w2]
          /\ \A c \in Running :
                 /\ c <= submitted
                 /\ future[c].state = "pending"
                 /\ \A n \in 1..Len(work_queue) : work_queue[n] # c)
    /\ [][\A w \in Workers :
              worker'[w] # worker[w] =>
                  IF worker[w] = 0
                  THEN work_queue # <<>> /\ worker'[w] = Head(work_queue)
                  ELSE worker'[w] = 0 /\ future'[worker[w]].state = "finished"]_vars

C23_Witness ==
    /\ max_workers = MaxWorkers
    /\ Cardinality(Running) = MaxWorkers
    /\ work_queue = <<>>
    /\ submitted = MaxCases
    /\ \E c \in Cases : future[c].state = "finished"

\* The cases in the order their futures finished, and whether case c
\* finished before as_completed was called
CompletionOrder == [n \in 1..Len(completed) |-> completed[n].test_case]
FinishedEarly(c) == \E n \in 1..Len(completed) : completed[n].test_case = c /\ completed[n].early

\* The header is the first entry of the log and the only header; the summary
\* is the last entry and follows the sections of all cases.
HeaderFirstSummaryLast ==
    \A k \in 1..Len(log) :
        /\ log[k].kind = "header" <=> k = 1
        /\ log[k].kind = "summary" =>
               /\ k = Len(log)
               /\ Len(Sections) = test_suite
               /\ \A c \in Cases : Cardinality(SectionsOf(c)) = 1

\* C24 as stated: the header comes first, the records are appended in the
\* order the cases complete, the summary comes after the records of all cases.
C24_Original ==
    /\ HeaderFirstSummaryLast
    /\ \A n \in 1..Len(Sections) : Sections[n].test_case = CompletionOrder[n]

\* C24: the header comes first and the summary after the records of all
\* cases; the records are appended in the order as_completed yields the
\* futures: first, in any order, those of the cases that had finished when
\* as_completed was called, then those of the other cases in the order the
\* cases complete.
C24_LogOrder ==
    /\ HeaderFirstSummaryLast
    /\ \A a, b \in 1..Len(Sections) :
           (a < b /\ ~FinishedEarly(Sections[a].test_case)) =>
               ~FinishedEarly(Sections[b].test_case)
    /\ LET late == SelectSeq(Sections, LAMBDA e : ~FinishedEarly(e.test_case))
           done == SelectSeq(completed, LAMBDA e : ~e.early)
       IN  /\ Len(late) <= Len(done)
           /\ \A n \in 1..Len(late) : late[n].test_case = done[n].test_case

C24_Witness ==
    /\ h_pc = "done"
    /\ test_suite = 3
    /\ CompletionOrder = <<1, 2, 3>>
    /\ FinishedEarly(1)
    /\ FinishedEarly(2)
    /\ ~FinishedEarly(3)
    /\ [n \in 1..3 |-> Sections[n].test_case] = <<2, 1, 3>>
    /\ log[Len(log)].kind = "summary"

\* Result lists with every mix of successes and failures
SuccessLists == SeqsUpTo({[success |-> 0], [success |-> 1]}, MaxCases)

\* C25: the sample count of the summary is the number of cases of the run,
\* failed and faulted ones included, and its success count, the numerator of
\* the success rate over that sample count, is the number of records with
\* success true; on every list of results the two are the length of the list
\* and the number of its successes.
C25_SummaryCounts ==
    /\ \A k \in 1..Len(log) :
           log[k].kind = "summary" =>
               /\ log[k].total_samples = test_suite
               /\ log[k].total_samples = Cardinality({c \in Cases : future[c].state = "finished"})
               /\ log[k].successes =
                      Cardinality({c \in Cases : future[c].result.success = 1})
    /\ \A rs \in SuccessLists :
           /\ total_samples(rs) = Len(rs)
           /\ SumSuccess(rs) = Cardinality({n \in 1..Len(rs) : rs[n].success = 1})

C25_Witness ==
    /\ h_pc = "done"
    /\ test_suite = MaxCases
    /\ log[Len(log)].kind = "summary"
    /\ log[Len(log)].total_samples = MaxCases
    /\ log[Len(log)].successes = 0
    /\ \A c \in Cases : IsFailedRecord(future[c].result)

-----------------------------------------------------------------------------
(* Properties of verify (SpecVerify) *)

\* What the classifier model produced for this verify call: the content of the
\* successful attempt, or None when there was none.
ClassifierOutput == IF Succeeded THEN Str(LastOutcome.content) ELSE PyNone

\* C9 as stated: verify returns one of the three labels, and Neutral whenever
\* the classifier output is not exactly one of the three labels.
C9_Original ==
    v_pc = "returned" =>
        /\ v_ret \in Labels
        /\ ClassifierOutput \notin Labels => v_ret = LabelNeutral

\* C9 amended: verify returns one of the three labels, and Neutral whenever the
\* classifier output, with leading and trailing whitespace removed, is not
\* exactly (case-sensitively) one of the three labels, or there is no output.
C9_Normalization ==
    v_pc = "returned" =>
        /\ v_ret \in Labels
        /\ (ClassifierOutput = PyNone \/ Str(strip(ClassifierOutput.val)) \notin Labels)
               => v_ret = LabelNeutral

C9_Witness ==
    /\ v_pc = "returned"
    /\ ClassifierOutput = Str(<<"Supports", "x">>)
    /\ v_ret = LabelNeutral

\* C10: when the evidence is empty or is the search error sentinel, verify
\* returns Neutral and no model call is made.
C10_ShortCircuit ==
    (v_pc # "idle" /\ (v_snippets = Str(<<>>) \/ v_snippets = SEARCH_API_ERROR)) =>
        /\ v_pc = "returned"
        /\ v_ret = LabelNeutral
        /\ llm_calls = 0
        /\ outcomes = <<>>

C10_Witness ==
    /\ v_pc = "returned"
    /\ v_snippets = SEARCH_API_ERROR
    /\ client = "OpenAI"
    /\ config.defined

====
